---- MODULE Spec2Model ----
(***************************************************************************)
(* State-machine model of the IdeasPlatform component                      *)
(* (src/src/components/IdeasTable.tsx): one fetch on mount, category       *)
(* facets, text/category filter, client-side pagination and the debounced  *)
(* search handler.                                                         *)
(*                                                                         *)
(* Strings that are searched (title, description, query) are sequences of  *)
(* one-character strings so that toLowerCase() and includes() are computed *)
(* character by character.  Category labels are only ever compared for     *)
(* equality and stay plain strings.  The `view` state (grid/list) selects  *)
(* between two markups with identical handlers and is left out.            *)
(* An event handler and the effects React flushes for it before the next   *)
(* event form one action.                                                  *)
(***************************************************************************)
EXTENDS Integers, Sequences, FiniteSets, TLC

VARIABLES ideas, loading, error, activeCategory, searchQuery, currentPage,
          isSearching, timeoutId, pc, requests, response, lastOp

vars == <<ideas, loading, error, activeCategory, searchQuery, currentPage,
          isSearching, timeoutId, pc, requests, response, lastOp>>

----------------------------------------------------------------------------
(* Bounds of the model *)

\* longest collection the endpoint returns (two pages need more than 6)
MaxIdeas == 7
\* longest collection drawn over the full template pool
MaxMixedIdeas == 3
\* clock ticks that make up the debounce delay
QuietTicks == 1

(* Program constants *)

ITEMS_PER_PAGE == 6
All == "All"
GenericMessage == "Failed to fetch ideas"

(* JavaScript values *)

Null == "<null>"
Undefined == "<undefined>"
NoTimer == [pending |-> FALSE, query |-> <<>>, left |-> 0]

Truthy(v) == v # Null /\ v # Undefined /\ v # ""

\* a || b || c
Or3(a, b, c) == IF Truthy(a) THEN a ELSE IF Truthy(b) THEN b ELSE c

Min(a, b) == IF a < b THEN a ELSE b
Max(a, b) == IF a > b THEN a ELSE b

\* Math.ceil(n / d) for n >= 0, d > 0
Ceil(n, d) == (n + d - 1) \div d

Range(s) == {s[i] : i \in 1..Len(s)}

----------------------------------------------------------------------------
(* String operations *)

toLowerCaseChar(c) ==
    CASE c = "A" -> "a"
      [] c = "B" -> "b"
      [] c = "C" -> "c"
      [] c = "D" -> "d"
      [] OTHER -> c

toLowerCase(s) == [i \in 1..Len(s) |-> toLowerCaseChar(s[i])]

\* String.prototype.includes: q occurs in s at some offset
includes(s, q) ==
    \E i \in 0..(Len(s) - Len(q)) : SubSeq(s, i + 1, i + Len(q)) = q

\* Array.prototype.slice(a, b) with 0 <= a <= b
slice(s, a, b) == SubSeq(s, a + 1, Min(b, Len(s)))

----------------------------------------------------------------------------
(* Input domains *)

Templates ==
    << [title |-> <<"A", "b">>, description |-> <<"d">>,
        category |-> <<"AI", "AI">>],
       [title |-> <<"b">>, description |-> <<"B", "c">>,
        category |-> <<"Web">>],
       [title |-> <<"c">>, description |-> <<>>,
        category |-> <<"All", "Web">>],
       [title |-> <<"D">>, description |-> <<"a", "b">>,
        category |-> <<>>] >>

\* the records of a collection carry distinct ids (their position)
MkIdeas(t) ==
    [i \in DOMAIN t |->
        [id |-> i, title |-> Templates[t[i]].title,
         description |-> Templates[t[i]].description,
         category |-> Templates[t[i]].category]]

Collections ==
    {MkIdeas(t) : t \in UNION {[1..n -> 1..Len(Templates)] : n \in 0..MaxMixedIdeas}}
    \cup
    {MkIdeas(t) : t \in UNION {[1..n -> 1..2] : n \in (MaxMixedIdeas + 1)..MaxIdeas}}

Queries == { <<>>, <<"a", "B">>, <<"z">> }

\* err.message of the TypeError a rejected fetch throws (browser dependent)
NetworkMessages == {"Failed to fetch", "Load failed"}
\* err.message of the SyntaxError response.json() throws
ParseMessages == {"Unexpected end of JSON input"}
\* err.message of the TypeError thrown by data.details when data is null
NullDerefMessage == "Cannot read properties of null (reading 'details')"

ErrorFields == {Undefined, "", "rate limited", "quota exceeded"}

NoBody == [kind |-> "none", thrown |-> Undefined, details |-> Undefined,
           error |-> Undefined, items |-> <<>>]

Bodies(ok) ==
    {[NoBody EXCEPT !.kind = "malformed", !.thrown = m] : m \in ParseMessages}
    \cup (IF ok
          THEN {[NoBody EXCEPT !.kind = "array", !.items = c] : c \in Collections}
          ELSE {[NoBody EXCEPT !.kind = "null"]}
               \cup {[NoBody EXCEPT !.kind = "object", !.details = d, !.error = e] :
                        d \in ErrorFields, e \in ErrorFields})

Responses ==
    {[rejects |-> TRUE, thrown |-> m, ok |-> FALSE, body |-> NoBody] :
        m \in NetworkMessages}
    \cup UNION {{[rejects |-> FALSE, thrown |-> Undefined, ok |-> ok, body |-> b] :
                    b \in Bodies(ok)} : ok \in BOOLEAN}

NoResponse == [rejects |-> FALSE, thrown |-> Undefined, ok |-> FALSE, body |-> NoBody]

----------------------------------------------------------------------------
(* Derived values of a render *)

flatMapCategory(is) ==
    LET F[n \in 0..Len(is)] ==
            IF n = 0 THEN <<>> ELSE F[n - 1] \o is[n].category
    IN F[Len(is)]

\* Array.from(new Set(s)): first occurrences, in insertion order
ArrayFromSet(s) ==
    LET U[n \in 0..Len(s)] ==
            IF n = 0 THEN <<>>
            ELSE LET seen == U[n - 1]
                 IN IF s[n] \in Range(seen) THEN seen ELSE Append(seen, s[n])
    IN U[Len(s)]

categoryIncludes(idea, c) == \E k \in 1..Len(idea.category) : idea.category[k] = c

uniqueCategories == ArrayFromSet(flatMapCategory(ideas))

\* counts every occurrence of the label instead of every idea carrying it
categoriesCountingOccurrences ==
    LET allCategories == flatMapCategory(ideas)
        unique == uniqueCategories
    IN <<[id |-> "all", name |-> All, count |-> Len(ideas)]>>
       \o [k \in 1..Len(unique) |->
              [id |-> unique[k], name |-> unique[k],
               count |-> Cardinality({j \in 1..Len(allCategories) :
                                         allCategories[j] = unique[k]})]]

categories ==
    LET unique == uniqueCategories
    IN <<[id |-> "all", name |-> All, count |-> Len(ideas)]>>
       \o [k \in 1..Len(unique) |->
              [id |-> unique[k], name |-> unique[k],
               count |-> LET Has(idea) == categoryIncludes(idea, unique[k])
                         IN Len(SelectSeq(ideas, Has))]]

\* the filter of one render, as a function of the state it reads
filterIdeas(is, cat, q) ==
    LET Keep(idea) ==
            /\ (cat = All \/ categoryIncludes(idea, cat))
            /\ \/ includes(toLowerCase(idea.title), toLowerCase(q))
               \/ includes(toLowerCase(idea.description), toLowerCase(q))
    IN SelectSeq(is, Keep)

filteredIdeas == filterIdeas(ideas, activeCategory, searchQuery)

totalPagesFloor == Len(filteredIdeas) \div ITEMS_PER_PAGE

totalPages == Ceil(Len(filteredIdeas), ITEMS_PER_PAGE)

startIndexOffByOne == currentPage * ITEMS_PER_PAGE

startIndex == (currentPage - 1) * ITEMS_PER_PAGE

endIndex == startIndex + ITEMS_PER_PAGE

currentPageIdeas == slice(filteredIdeas, startIndex, endIndex)

\* if (error) return <error view>
ErrorView == Truthy(error)

\* isSearching || loading ? <GridSkeleton /> : ...
Skeleton == isSearching \/ loading

\* {totalPages > 1 && (<Pagination> ...)}
PaginationShown == ~ErrorView /\ ~Skeleton /\ totalPages > 1

LoadState ==
    IF ErrorView THEN "Failed" ELSE IF loading THEN "Loading" ELSE "Ready"

----------------------------------------------------------------------------
(* useEffect(() => setCurrentPage(1), [activeCategory, searchQuery]) *)

pageAfterEffectCategoryOnly(cat, q, page) ==
    IF cat # activeCategory THEN 1 ELSE page

pageAfterEffect(cat, q, page) ==
    IF cat # activeCategory \/ q # searchQuery THEN 1 ELSE page

----------------------------------------------------------------------------
Init ==
    /\ ideas = <<>>
    /\ loading = TRUE
    /\ error = Null
    /\ activeCategory = All
    /\ searchQuery = <<>>
    /\ currentPage = 1
    /\ isSearching = FALSE
    /\ timeoutId = NoTimer
    /\ pc = "mount"
    /\ requests = 0
    /\ response = NoResponse
    /\ lastOp = [op |-> "init", cat |-> "", page |-> 1]

----------------------------------------------------------------------------
(* The load effect: useEffect(() => { ... fetchIdeas() }, []) *)

\* runs after every render instead of after the first one only
FetchEffectEveryRender ==
    /\ pc \in {"mount", "done"}
    /\ loading' = TRUE
    /\ requests' = requests + 1
    /\ pc' = "fetch"
    /\ lastOp' = [op |-> "fetch", cat |-> "", page |-> currentPage]
    /\ UNCHANGED <<ideas, error, activeCategory, searchQuery, currentPage,
                   isSearching, timeoutId, response>>

\* setLoading(true); fetch('/api/airtable') is issued
FetchEffect ==
    /\ pc = "mount"
    /\ loading' = TRUE
    /\ requests' = requests + 1
    /\ pc' = "fetch"
    /\ lastOp' = [op |-> "fetch", cat |-> "", page |-> currentPage]
    /\ UNCHANGED <<ideas, error, activeCategory, searchQuery, currentPage,
                   isSearching, timeoutId, response>>

\* await fetch(...): the request rejects (catch, finally) or a response arrives
FetchSettles ==
    /\ pc = "fetch"
    /\ \E r \in Responses :
          /\ response' = r
          /\ IF r.rejects
             THEN /\ error' = r.thrown
                  /\ loading' = FALSE
                  /\ pc' = "done"
                  /\ lastOp' = [op |-> "failed", cat |-> "", page |-> currentPage]
             ELSE /\ pc' = "json"
                  /\ lastOp' = [op |-> "response", cat |-> "", page |-> currentPage]
                  /\ UNCHANGED <<error, loading>>
    /\ UNCHANGED <<ideas, activeCategory, searchQuery, currentPage,
                   isSearching, timeoutId, requests>>

\* data.error || data.details || 'Failed to fetch ideas'
notOkMessageErrorFirst(data) ==
    IF data.kind = "null" THEN NullDerefMessage
    ELSE Or3(data.error, data.details, GenericMessage)

\* new Error(data.details || data.error || 'Failed to fetch ideas').message
notOkMessage(data) ==
    IF data.kind = "null" THEN NullDerefMessage
    ELSE Or3(data.details, data.error, GenericMessage)

\* await response.json() and the rest of the try block, catch and finally
JsonSettles ==
    /\ pc = "json"
    /\ LET data == response.body IN
         IF data.kind = "malformed"
         THEN /\ error' = data.thrown
              /\ lastOp' = [op |-> "failed", cat |-> "", page |-> currentPage]
              /\ UNCHANGED ideas
         ELSE IF ~response.ok
         THEN /\ error' = notOkMessage(data)
              /\ lastOp' = [op |-> "failed", cat |-> "", page |-> currentPage]
              /\ UNCHANGED ideas
         ELSE /\ ideas' = data.items
              /\ lastOp' = [op |-> "loaded", cat |-> "", page |-> currentPage]
              /\ UNCHANGED error
    /\ loading' = FALSE
    /\ pc' = "done"
    /\ UNCHANGED <<activeCategory, searchQuery, currentPage, isSearching,
                   timeoutId, requests, response>>

----------------------------------------------------------------------------
(* Search input and the debounced handleSearch *)

\* the handler without setIsSearching(true)
onSearchInputChangeNoIndicator ==
    /\ pc # "mount"
    /\ ~ErrorView
    /\ \E query \in Queries \ {searchQuery} :
          /\ searchQuery' = query
          /\ timeoutId' = [pending |-> TRUE, query |-> query, left |-> QuietTicks]
          /\ currentPage' = pageAfterEffect(activeCategory, query, currentPage)
    /\ lastOp' = [op |-> "input", cat |-> "", page |-> currentPage]
    /\ UNCHANGED <<ideas, loading, error, activeCategory, isSearching, pc,
                   requests, response>>

\* onChange of the controlled input: the event value differs from searchQuery
onSearchInputChange ==
    /\ pc # "mount"
    /\ ~ErrorView
    /\ \E query \in Queries \ {searchQuery} :
          /\ searchQuery' = query
          /\ timeoutId' = [pending |-> TRUE, query |-> query, left |-> QuietTicks]
          /\ currentPage' = pageAfterEffect(activeCategory, query, currentPage)
    /\ isSearching' = TRUE
    /\ lastOp' = [op |-> "input", cat |-> "", page |-> currentPage]
    /\ UNCHANGED <<ideas, loading, error, activeCategory, pc, requests, response>>

\* time passes while the timer of setTimeout(..., 500) is pending
Tick ==
    /\ timeoutId.pending
    /\ timeoutId.left > 0
    /\ timeoutId' = [timeoutId EXCEPT !.left = @ - 1]
    /\ UNCHANGED <<ideas, loading, error, activeCategory, searchQuery, currentPage,
                   isSearching, pc, requests, response, lastOp>>

\* the timer fires: setSearchQuery(query); setIsSearching(false)
handleSearch ==
    /\ timeoutId.pending
    /\ timeoutId.left = 0
    /\ searchQuery' = timeoutId.query
    /\ isSearching' = FALSE
    /\ currentPage' = pageAfterEffect(activeCategory, timeoutId.query, currentPage)
    /\ timeoutId' = NoTimer
    /\ lastOp' = [op |-> "commit", cat |-> "", page |-> currentPage]
    /\ UNCHANGED <<ideas, loading, error, activeCategory, pc, requests, response>>

----------------------------------------------------------------------------
(* Category buttons and pagination controls *)

\* onClick={() => setActiveCategory(category.name)}
setActiveCategory ==
    /\ pc # "mount"
    /\ ~ErrorView
    /\ LET facets == categories IN
         \E k \in 1..Len(facets) :
            /\ activeCategory' = facets[k].name
            /\ currentPage' = pageAfterEffect(facets[k].name, searchQuery, currentPage)
            /\ lastOp' = [op |-> "category", cat |-> facets[k].name, page |-> currentPage]
    /\ UNCHANGED <<ideas, loading, error, searchQuery, isSearching, timeoutId,
                   pc, requests, response>>

\* setCurrentPage(Math.max(1, currentPage - 1))
PaginationPrevious ==
    /\ PaginationShown
    /\ currentPage' = Max(1, currentPage - 1)
    /\ lastOp' = [op |-> "previous", cat |-> "", page |-> currentPage]
    /\ UNCHANGED <<ideas, loading, error, activeCategory, searchQuery,
                   isSearching, timeoutId, pc, requests, response>>

nextPageUnclamped == currentPage + 1

nextPage == Min(totalPages, currentPage + 1)

\* setCurrentPage(Math.min(totalPages, currentPage + 1))
PaginationNext ==
    /\ PaginationShown
    /\ currentPage' = nextPage
    /\ lastOp' = [op |-> "next", cat |-> "", page |-> currentPage]
    /\ UNCHANGED <<ideas, loading, error, activeCategory, searchQuery,
                   isSearching, timeoutId, pc, requests, response>>

\* generatePaginationItems: onClick={() => setCurrentPage(i)} for i in 1..totalPages
PaginationLink ==
    /\ PaginationShown
    /\ \E i \in 1..totalPages : currentPage' = i
    /\ lastOp' = [op |-> "link", cat |-> "", page |-> currentPage]
    /\ UNCHANGED <<ideas, loading, error, activeCategory, searchQuery,
                   isSearching, timeoutId, pc, requests, response>>

----------------------------------------------------------------------------
Next ==
    \/ FetchEffect
    \/ FetchSettles
    \/ JsonSettles
    \/ onSearchInputChange
    \/ Tick
    \/ handleSearch
    \/ setActiveCategory
    \/ PaginationPrevious
    \/ PaginationNext
    \/ PaginationLink

Spec == Init /\ [][Next]_vars

\* a pending timer is run by the event loop once its delay has elapsed
FairSpec == Spec /\ WF_vars(Tick) /\ WF_vars(handleSearch)

TypeOK ==
    /\ loading \in BOOLEAN
    /\ isSearching \in BOOLEAN
    /\ currentPage \in Nat
    /\ searchQuery \in Queries
    /\ pc \in {"mount", "fetch", "json", "done"}
    /\ requests \in Nat

----------------------------------------------------------------------------
(* Properties *)

\* C1: in every reachable state currentPage is an integer with
\* 1 <= currentPage <= max(1, totalPages), totalPages being that of the same state.
C1_PageInRange ==
    /\ currentPage \in Int
    /\ 1 <= currentPage
    /\ currentPage <= Max(1, totalPages)

\* the next control has moved the view to the last of several pages
C1_Witness == lastOp.op = "next" /\ lastOp.page = 1 /\ currentPage = 2 /\ totalPages = 2

\* a step taken by a category button (Tick is the only other step that keeps lastOp)
CategoryStep == lastOp'.op = "category" /\ timeoutId' = timeoutId

\* C2 as stated: after setActiveCategory(name) took effect, from any page,
\* activeCategory = name and currentPage = 1; and currentPage = 1 after every
\* commit of a searchQuery.
C2_Original ==
    /\ lastOp.op = "category" => (activeCategory = lastOp.cat /\ currentPage = 1)
    /\ lastOp.op \in {"input", "commit"} => currentPage = 1

\* C2 amended: setActiveCategory(name) makes activeCategory = name; it resets
\* currentPage to 1 when name differs from the active category and leaves the
\* page unchanged when name is the category already active; every change of
\* searchQuery and every debounced commit leaves currentPage = 1.
C2_ResetOnChange ==
    /\ [](lastOp.op = "category" => activeCategory = lastOp.cat)
    /\ [](lastOp.op \in {"input", "commit"} => currentPage = 1)
    /\ [][/\ activeCategory' # activeCategory => currentPage' = 1
          /\ searchQuery' # searchQuery => currentPage' = 1
          /\ (CategoryStep /\ activeCategory' = activeCategory)
                => currentPage' = currentPage]_vars

\* a category different from the active one was selected on page 2
C2_Witness ==
    /\ lastOp.op = "category" /\ lastOp.page = 2
    /\ activeCategory = lastOp.cat /\ activeCategory # All
    /\ currentPage = 1

\* C3 as stated: searchQuery changes only when the debounce timer fires after
\* the quiet period, and then to the last input (one update per burst, no
\* earlier input of the burst is ever committed).
C3_DebouncedCommit ==
    [][searchQuery' # searchQuery =>
          /\ timeoutId.pending /\ timeoutId.left = 0
          /\ ~timeoutId'.pending
          /\ searchQuery' = timeoutId.query]_vars

LoadFailed(r) == r.rejects \/ ~r.ok \/ r.body.kind = "malformed"

HasErrorField(r) ==
    ~r.rejects /\ r.body.kind = "object" /\ r.body.error # Undefined

\* C4 as stated: after a failed load the message is the error field of the
\* body when present and the generic message otherwise.
C4_Original ==
    (pc = "done" /\ LoadFailed(response)) =>
        /\ LoadState = "Failed"
        /\ error = IF HasErrorField(response) THEN response.body.error
                   ELSE GenericMessage

ExpectedMessage(r) ==
    IF r.rejects THEN r.thrown
    ELSE IF r.body.kind = "malformed" THEN r.body.thrown
    ELSE IF r.body.kind = "null" THEN NullDerefMessage
    ELSE IF r.body.details \notin {Undefined, ""} THEN r.body.details
    ELSE IF r.body.error \notin {Undefined, ""} THEN r.body.error
    ELSE GenericMessage

\* C4 amended: a failed load ends in Failed(message); message is the thrown
\* error's own message when the request rejects or the body cannot be parsed
\* (or is null), and for a non-success response with an object body it is the
\* body's non-empty details field, else its non-empty error field, else the
\* generic message; {"error": "rate limited"} yields Failed("rate limited").
C4_FailedMessage ==
    (pc = "done" /\ LoadFailed(response)) =>
        /\ LoadState = "Failed"
        /\ error = ExpectedMessage(response)
        /\ (/\ ~response.rejects /\ response.body.kind = "object"
            /\ response.body.details = Undefined
            /\ response.body.error = "rate limited") => error = "rate limited"

\* Scenario D has happened
C4_Witness ==
    /\ pc = "done" /\ lastOp.op = "failed"
    /\ ~response.rejects /\ ~response.ok /\ response.body.kind = "object"
    /\ response.body.details = Undefined /\ response.body.error = "rate limited"
    /\ error = "rate limited"

\* C5: the request is issued exactly once, and once the load has failed no
\* later step issues a request or changes the message or the load state.
C5_LoadOnceFailedTerminal ==
    /\ [](requests <= 1 /\ (pc # "mount" => requests = 1))
    /\ [][LoadState = "Failed" =>
              /\ requests' = requests
              /\ error' = error
              /\ LoadState' = "Failed"
              /\ loading' = loading
              /\ ideas' = ideas]_vars

\* a debounce timer scheduled before the failure has fired after it
C5_Witness == LoadState = "Failed" /\ lastOp.op = "commit" /\ requests = 1

\* s contains q, ignoring case: some stretch of s equals q once both are lowered
ContainsIgnoringCase(s, q) ==
    \E a \in 1..(Len(s) + 1) : \E b \in (a - 1)..Len(s) :
        toLowerCase(SubSeq(s, a, b)) = toLowerCase(q)

\* positions of the loaded collection that pass the category and text filter
MatchingPositions ==
    {i \in 1..Len(ideas) :
        /\ (activeCategory = All \/ activeCategory \in Range(ideas[i].category))
        /\ \/ searchQuery = <<>>
           \/ ContainsIgnoringCase(ideas[i].title, searchQuery)
           \/ ContainsIgnoringCase(ideas[i].description, searchQuery)}

\* C6: the visible ideas are the elements (currentPage-1)*6 .. currentPage*6 of
\* the filtered list, the filtered list being the matching ideas in load order;
\* so they are ideas of the collection, at most 6, in load order.
C6_VisibleSlice ==
    LET matching == MatchingPositions
        \* 1-based rank of position i among the matching positions
        RankOf(i) == Cardinality({j \in matching : j <= i})
        first == (currentPage - 1) * 6
        n == Cardinality(matching)
        filtered == filteredIdeas
        visible == currentPageIdeas
    IN /\ Len(filtered) = n
       /\ \A i \in matching : filtered[RankOf(i)] = ideas[i]
       /\ Len(visible) = Max(0, Min(6, n - first))
       /\ Len(visible) <= 6
       /\ \A k \in 1..Len(visible) :
             \E i \in matching : RankOf(i) = first + k /\ visible[k] = ideas[i]

\* Scenario A: the second page of seven ideas shows the seventh one
C6_Witness ==
    /\ Len(ideas) = 7 /\ currentPage = 2
    /\ Len(currentPageIdeas) = 1 /\ currentPageIdeas[1] = ideas[7]

\* C7 as stated: totalPages = max(1, ceil(filteredCount / pageSize)) in every
\* state; with no match the visible ideas are empty, totalPages = 1 and
\* currentPage = 1.
C7_Original ==
    /\ totalPages = Max(1, Ceil(Len(filteredIdeas), ITEMS_PER_PAGE))
    /\ Len(filteredIdeas) = 0 =>
          (currentPageIdeas = <<>> /\ totalPages = 1 /\ currentPage = 1)

\* C7 amended: totalPages = ceil(filteredCount / pageSize), the least number of
\* pages of 6 that hold the filtered ideas, which is 0 when nothing matches;
\* with no match (also before the load) the visible ideas are empty,
\* totalPages = 0 and currentPage = 1.
C7_TotalPages ==
    LET n == Len(filteredIdeas)
        pages == totalPages
    IN /\ pages \in 0..n
       /\ pages * 6 >= n
       /\ \A p \in 0..n : p * 6 >= n => pages <= p
       /\ n = 0 => (currentPageIdeas = <<>> /\ pages = 0 /\ currentPage = 1)

\* Scenario C: a committed query matches none of the loaded ideas
C7_Witness ==
    /\ Len(ideas) > 0 /\ lastOp.op = "commit" /\ searchQuery = <<"z">>
    /\ Len(filteredIdeas) = 0 /\ totalPages = 0 /\ currentPage = 1

\* position of the first occurrence of label c, scanning ideas in load order
\* and each idea's category sequence in order
FirstSeen(c) ==
    CHOOSE p \in UNION {{<<i, k>> : k \in 1..Len(ideas[i].category)} :
                           i \in 1..Len(ideas)} :
        /\ ideas[p[1]].category[p[2]] = c
        /\ \A i \in 1..Len(ideas) : \A k \in 1..Len(ideas[i].category) :
              ideas[i].category[k] = c => (p[1] < i \/ (p[1] = i /\ p[2] <= k))

Before(p, r) == p[1] < r[1] \/ (p[1] = r[1] /\ p[2] < r[2])

Labels == UNION {Range(ideas[i].category) : i \in 1..Len(ideas)}

\* C8: the facet list is "All" followed by the distinct labels in first-seen
\* order; the count of "All" is the number of ideas and the count of a label
\* is the number of ideas carrying it (once per idea).
C8_Facets ==
    LET facets == categories
        labels == Labels
        seen == [c \in labels |-> FirstSeen(c)]
    IN /\ Len(facets) = 1 + Cardinality(labels)
       /\ facets[1].name = All /\ facets[1].count = Len(ideas)
       /\ {facets[k].name : k \in 2..Len(facets)} = labels
       /\ \A k \in 2..Len(facets) : \A m \in 2..Len(facets) :
             k < m => Before(seen[facets[k].name], seen[facets[m].name])
       /\ \A k \in 2..Len(facets) :
             facets[k].count =
                Cardinality({i \in 1..Len(ideas) :
                                facets[k].name \in Range(ideas[i].category)})

\* a loaded collection whose first idea lists "AI" twice and is counted once
C8_Witness ==
    /\ lastOp.op = "loaded" /\ Len(ideas) = 3
    /\ ideas[1].category = <<"AI", "AI">>
    /\ Len(categories) = 4
    /\ categories[2] = [id |-> "AI", name |-> "AI", count |-> 1]

\* C9: an input marks the indicator active at once and the indicator stays
\* active while a timer is pending; with a fair timer, unless a further input
\* follows, a state is reached with searchQuery = raw, the indicator inactive
\* and currentPage = 1.
C9_DebouncedIndicator ==
    /\ [](lastOp.op = "input" => (isSearching /\ timeoutId.pending))
    /\ [](timeoutId.pending => isSearching)
    /\ \A raw \in Queries :
          (timeoutId.pending /\ timeoutId.query = raw)
             ~> \/ /\ ~timeoutId.pending /\ searchQuery = raw
                   /\ ~isSearching /\ currentPage = 1
                \/ timeoutId.pending /\ timeoutId.query # raw

\* the timer of the last input has fired and committed its query
C9_Witness ==
    /\ lastOp.op = "commit" /\ searchQuery = <<"a", "B">>
    /\ ~isSearching /\ ~timeoutId.pending /\ currentPage = 1
    /\ Len(ideas) > 0

\* C10: for every facet of a loaded collection, selecting it with an empty
\* searchQuery filters exactly count ideas, and facet names are distinct.
C10_FacetCountAgrees ==
    LET facets == categories
    IN (pc = "done" /\ LoadState = "Ready") =>
          /\ \A k \in 1..Len(facets) :
                Len(filterIdeas(ideas, facets[k].name, <<>>)) = facets[k].count
          /\ \A k \in 1..Len(facets) : \A m \in 1..Len(facets) :
                facets[k].name = facets[m].name => k = m

====
